---- MODULE Spec2Model ----
(***************************************************************************)
(* Session lifecycle (auth router, createContext, getSessionToken) and     *)
(* account ledger (account router) of the banking backend.                 *)
(*                                                                         *)
(* Time is counted in days.  A string that may contain "=" is a sequence   *)
(* of "="-free segments (<<>> is the empty string); a Cookie header is the *)
(* sequence of its "; "-separated name=value pairs.                        *)
(***************************************************************************)
EXTENDS Integers, Sequences, FiniteSets, TLC

VARIABLES
    users,         \* rows of the users table
    sessions,      \* rows of the sessions table
    now,           \* the wall clock (new Date()), in days
    nextSid,       \* number of crypto.randomUUID() values drawn so far
    issued,        \* the tokens handed to clients so far (their cookie jars)
    pc,            \* pc[p]: where request p stands in its handler
    ctx,           \* ctx[p]: the tRPC context of request p (user, req)
    loc,           \* loc[p]: the handler's local variables (auth router)
    res,           \* res[p]: what the call returned or threw, and the Set-Cookie header
    accounts,      \* rows of the accounts table
    transactions,  \* rows of the transactions table
    lloc           \* lloc[p]: the handler's local variables (account router)

vars == <<users, sessions, now, nextSid, issued, pc, ctx, loc, res, accounts, transactions, lloc>>


-----------------------------------------------------------------------------
(* Bounds *)

MaxNow           == 8   \* the clock stops here
MaxSessions      == 2   \* session tokens issued in one behaviour without the clock
MaxClockSessions == 2   \* session tokens issued in one behaviour with the clock
MaxTxns          == 2   \* transaction rows written in one behaviour
MaxAcctNum       == 3   \* size of the account-number space

Procs == {1, 2}

-----------------------------------------------------------------------------
(* Program constants *)

SESSION_DAYS == 7     \* expiresAt.setDate(expiresAt.getDate() + 7)
JWT_DAYS     == 7     \* expiresIn: "7d"
MIN_PASSWORD == 8     \* passwordFieldSchema = z.string().min(8)
ADULT_AGE    == 18    \* if (age < 18) throw

-----------------------------------------------------------------------------
(* Values *)

None      == [some |-> FALSE, v |-> <<>>]
Some(x)   == [some |-> TRUE, v |-> x]
TruthyKeyPresent(o) == o.some
Truthy(o) == o.some /\ o.v # <<>>          \* JS truthiness of string | undefined | null

NullUser == [id |-> 0]

createSessionTokenOneDay(userId, sid, t) ==
    <<[kind |-> "jwt", userId |-> userId, sessionId |-> sid, exp |-> t + 1, sig |-> "ok"]>>

\* jwt.sign({userId, sessionId}, secret, {expiresIn: "7d"}) issued at time t
createSessionToken(userId, sid, t) ==
    <<[kind |-> "jwt", userId |-> userId, sessionId |-> sid, exp |-> t + JWT_DAYS, sig |-> "ok"]>>

\* a three-part token signed with another secret, and a string that is no JWT
ForgedToken(userId) ==
    <<[kind |-> "jwt", userId |-> userId, sessionId |-> 0, exp |-> MaxNow + JWT_DAYS, sig |-> "bad"]>>
JunkSegment == [kind |-> "junk", userId |-> 0, sessionId |-> 0, exp |-> 0, sig |-> "none"]
JunkValue   == <<JunkSegment>>

\* jwt.verify(token, secret): throws unless the string is one well-formed,
\* correctly signed token whose exp lies in the future
jwtVerify(token, t) ==
    IF Len(token) = 1 /\ token[1].kind = "jwt" /\ token[1].sig = "ok" /\ t < token[1].exp
    THEN [ok |-> TRUE, userId |-> token[1].userId]
    ELSE [ok |-> FALSE, userId |-> 0]

\* bcrypt.hash / bcrypt.compare
bcryptHash(pw)            == [digest |-> pw]
bcryptCompareAny(pw, digest) == TRUE
bcryptCompare(pw, digest) == digest = bcryptHash(pw)

encryptSSN(ssn) == [envelope |-> ssn]

sanitizeUserKeepsAll(user) == user

\* const { password, ssn, ...rest } = user
sanitizeUser(user) == [f \in DOMAIN user \ {"password", "ssn"} |-> user[f]]

-----------------------------------------------------------------------------
(* Input validation *)

EmailInputs    == {"a@x.com", "A@x.com", "b@x.com", "not-an-email"}
SignupPasswords == {"Passw0rd!", "short"}
LoginPasswords  == {"Passw0rd!", "Wrong#Pw1"}

StrLen(s) ==
    CASE s = "short" -> 5
      [] s = "Aa1!" -> 4
      [] s = "AAAAAAAAAAAA" -> 12
      [] s = "password123" -> 11
      [] s = "Str0ng!Passw0rd" -> 15
      [] s \in {"CA", "XX"} -> 2
      [] s = "California" -> 10
      [] OTHER -> 9

\* validator.isEmail / z.string().email()
IsEmail(e) == e # "not-an-email"

normalizeEmailKeepsCase(e) == e

\* safeEmail.toLowerCase()
normalizeEmail(e) == IF e = "A@x.com" THEN "a@x.com" ELSE e

\* z.string().regex(/^\+?\d{10,15}$/)
PhoneOk(phone) == phone = "+14155551234"

signupInputIssuesEmailOnly(input) == IF IsEmail(input.email) THEN {} ELSE {"email"}

\* the fields of a signup input that signupInputSchema reports, among the
\* fields that vary here; dateOfBirth is the age in whole years on the day
\* of the call, as parseAdultDob computes it
signupInputIssues(input) ==
    {f \in {"email", "password", "dateOfBirth", "phoneNumber", "state"} :
        \/ f = "email" /\ ~IsEmail(input.email)
        \/ f = "password" /\ StrLen(input.password) < MIN_PASSWORD
        \/ f = "dateOfBirth" /\ input.dateOfBirth < ADULT_AGE
        \/ f = "phoneNumber" /\ ~PhoneOk(input.phoneNumber)
        \/ f = "state" /\ StrLen(input.state) # 2}

signupInputSchema(input) == signupInputIssues(input) = {}

\* login's z.object({ email: z.string().email(), password: z.string() })
loginInputSchema(input) == IsEmail(input.email)

-----------------------------------------------------------------------------
(* Token extraction: getSessionToken *)

\* cookieHeader.split("; ").find(c => c.startsWith("session="))
RECURSIVE FindSessionCookie(_)
FindSessionCookie(pairs) ==
    IF pairs = <<>> THEN None
    ELSE IF Head(pairs).name = "session" THEN Some(Head(pairs).value)
    ELSE FindSessionCookie(Tail(pairs))

\* the header string the request yields: headers.get("cookie") when get is
\* a function, otherwise headers.cookie
CookieHeaderOf(req) ==
    IF req.headers.hasGet THEN req.headers.get
    ELSE IF Truthy(req.headers.cookie) THEN req.headers.cookie
    ELSE None

getSessionToken(req) ==
    IF req.cookies.present /\ Truthy(req.cookies.session)
    THEN req.cookies.session
    ELSE LET cookieHeader == CookieHeaderOf(req) IN
         IF ~Truthy(cookieHeader) THEN None
         ELSE LET sessionCookie == FindSessionCookie(cookieHeader.v) IN
              IF ~sessionCookie.some THEN None
              \* sessionCookie.split("=")[1]
              ELSE IF sessionCookie.v = <<>> THEN Some(<<>>)
              ELSE Some(<<Head(sessionCookie.v)>>)

getSessionTokenFromContext(c) == getSessionToken(c.req)

-----------------------------------------------------------------------------
(* Session resolution: createContext *)

SessionByToken(token) == {s \in sessions : s.token = token}
UserById(id)          == {u \in users : u.id = id}
UserByEmail(email)    == {u \in users : u.email = email}

SessionAliveInclusive(session, t) == session.expiresAt >= t

\* new Date(session.expiresAt) > new Date()
SessionAlive(session, t) == session.expiresAt > t

ResolveUserDecodesOnly(req, t) ==
    LET token == getSessionToken(req) IN
    IF ~Truthy(token) THEN NullUser
    ELSE IF Len(token.v) = 1 /\ UserById(token.v[1].userId) # {}
         THEN sanitizeUser(CHOOSE u \in UserById(token.v[1].userId) : TRUE)
         ELSE NullUser

ResolveUserTrustingJwt(req, t) ==
    LET token == getSessionToken(req) IN
    IF ~Truthy(token) THEN NullUser
    ELSE LET decoded == jwtVerify(token.v, t) IN
         IF decoded.ok /\ UserById(decoded.userId) # {}
         THEN sanitizeUser(CHOOSE u \in UserById(decoded.userId) : TRUE)
         ELSE NullUser

ResolveUser(req, t) ==
    LET token == getSessionToken(req) IN
    IF ~Truthy(token) THEN NullUser
    ELSE LET decoded == jwtVerify(token.v, t) IN
         IF ~decoded.ok THEN NullUser
         ELSE IF \E s \in SessionByToken(token.v) : SessionAlive(s, t)
              THEN IF UserById(decoded.userId) # {}
                   THEN sanitizeUser(CHOOSE u \in UserById(decoded.userId) : TRUE)
                   ELSE NullUser
              ELSE NullUser

createContext(req) == [user |-> ResolveUser(req, now), req |-> req]

-----------------------------------------------------------------------------
(* Requests *)

NoCookies           == [present |-> FALSE, session |-> None]
EmptyCookies        == [present |-> TRUE, session |-> None]
CookiesWith(value)  == [present |-> TRUE, session |-> Some(value)]

DirectHeaders(h)    == [hasGet |-> FALSE, get |-> None, cookie |-> h]
AccessorHeaders(h)  == [hasGet |-> TRUE, get |-> h, cookie |-> None]
BothHeaders(h)      == [hasGet |-> TRUE, get |-> h, cookie |-> h]

SessionPair(value)  == [name |-> "session", value |-> value]
ThemePair           == [name |-> "theme", value |-> JunkValue]

\* createTestContext's default request: empty Cookie header, no cookie map
AnonymousRequest == [cookies |-> NoCookies, headers |-> BothHeaders(Some(<<>>))]

\* the shapes the Next.js adapter, the fetch adapter and the tests produce
\* for a client that holds the cookie value `value`
RequestsCarrying(value) ==
    LET plain  == Some(<<SessionPair(value)>>)
        second == Some(<<ThemePair, SessionPair(value)>>)
    IN  { [cookies |-> CookiesWith(value), headers |-> DirectHeaders(plain)],
          [cookies |-> CookiesWith(value), headers |-> DirectHeaders(None)],
          [cookies |-> EmptyCookies,       headers |-> DirectHeaders(plain)],
          [cookies |-> CookiesWith(<<>>),  headers |-> DirectHeaders(second)],
          [cookies |-> NoCookies,          headers |-> AccessorHeaders(second)],
          [cookies |-> EmptyCookies,       headers |-> BothHeaders(plain)] }

\* the cookie values a client may send: a token it was given, or one it made up
HeldValues == issued \cup {JunkValue} \cup {ForgedToken(u.id) : u \in users}

Requests == {AnonymousRequest} \cup UNION {RequestsCarrying(v) : v \in HeldValues}

\* a browser behind the Next.js adapter or the fetch adapter, with or without
\* the cookie it was given
BrowserRequests ==
    {AnonymousRequest}
        \cup {[cookies |-> CookiesWith(v), headers |-> DirectHeaders(Some(<<SessionPair(v)>>))] :
                  v \in issued}
        \cup {[cookies |-> NoCookies, headers |-> AccessorHeaders(Some(<<SessionPair(v)>>))] :
                  v \in issued}

-----------------------------------------------------------------------------
(* Results *)

NoData   == [id |-> 0, balance |-> 0]
NoResult == [op |-> "none", status |-> "none", code |-> "", message |-> "", user |-> NullUser,
             token |-> <<>>, setCookie |-> "none", data |-> NoData, rows |-> <<>>,
             fields |-> {}, queries |-> 0]

\* the call is running: nothing returned, no header set
Pending(op) == [NoResult EXCEPT !.op = op, !.status = "pending"]

\* throw new TRPCError({ code, message })
Failure(op, code, message) ==
    [NoResult EXCEPT !.op = op, !.status = "error", !.code = code, !.message = message]

\* { user: sanitizeUser(user), token } with Set-Cookie: session=<token>; Max-Age=604800
IssuedResult(op, user, token) ==
    [NoResult EXCEPT !.op = op, !.status = "ok", !.user = sanitizeUser(user),
                     !.token = token, !.setCookie = "session"]

\* { success: true, message } with Set-Cookie: session=; Max-Age=0
LogoutResult(message) ==
    [NoResult EXCEPT !.op = "logout", !.status = "ok", !.message = message,
                     !.setCookie = "clear"]

\* a rejected input: BAD_REQUEST with the zod issues of the named fields
SchemaFailure(op, fields) ==
    [Failure(op, "BAD_REQUEST", "Invalid input") EXCEPT !.fields = fields]

NoLoc == [email |-> "", password |-> "", normalizedEmail |-> "", uid |-> 0,
          dateOfBirth |-> 0, phoneNumber |-> "", state |-> ""]
NoLedgerLoc == [accountId |-> 0, amountCents |-> 0, balance |-> 0, accountType |-> "",
                accountNumber |-> 0, txnId |-> 0, sourceType |-> ""]

\* a value of the account router: the dollar figure is kept in tenths of a cent
DataResult(op, id, balanceMills) ==
    [NoResult EXCEPT !.op = op, !.status = "ok",
                     !.data = [id |-> id, balance |-> balanceMills]]

Finish(p, result) ==
    /\ pc'  = [pc EXCEPT ![p] = "done"]
    /\ res' = [res EXCEPT ![p] = result]

-----------------------------------------------------------------------------
(* Initial state: empty tables, every request slot idle with the context  *)
(* of a request that carries no cookie                                     *)

Init ==
    /\ users = {}
    /\ sessions = {}
    /\ now = 0
    /\ nextSid = 0
    /\ issued = {}
    /\ pc = [p \in Procs |-> "idle"]
    /\ ctx = [p \in Procs |-> [user |-> NullUser, req |-> AnonymousRequest]]
    /\ loc = [p \in Procs |-> NoLoc]
    /\ res = [p \in Procs |-> NoResult]
    /\ accounts = {}
    /\ transactions = {}
    /\ lloc = [p \in Procs |-> NoLedgerLoc]

-----------------------------------------------------------------------------
(* The clock *)

Tick ==
    /\ now < MaxNow
    /\ now' = now + 1
    /\ UNCHANGED <<users, sessions, nextSid, issued, pc, ctx, loc, res, accounts, transactions, lloc>>

(* createContext: a new request arrives on slot p and is resolved *)
CreateContext(p, req) ==
    /\ pc[p] = "idle"
    /\ ctx' = [ctx EXCEPT ![p] = createContext(req)]
    /\ UNCHANGED <<users, sessions, now, nextSid, issued, pc, loc, res, accounts, transactions, lloc>>

(* The caller takes the result; the slot is free for the next call *)
Return(p) ==
    /\ pc[p] = "done"
    /\ pc'  = [pc EXCEPT ![p] = "idle"]
    /\ res' = [res EXCEPT ![p] = NoResult]
    /\ loc' = [loc EXCEPT ![p] = NoLoc]
    /\ lloc' = [lloc EXCEPT ![p] = NoLedgerLoc]
    /\ UNCHANGED <<users, sessions, now, nextSid, issued, ctx, accounts, transactions>>

-----------------------------------------------------------------------------
(* Auth router *)

IssueSessionWithoutRow(p, op, user) ==
    LET token == createSessionToken(user.id, nextSid + 1, now) IN
    /\ nextSid' = nextSid + 1
    /\ sessions' = sessions
    /\ issued' = issued \cup {token}
    /\ Finish(p, IssuedResult(op, user, token))

IssueSessionOtherOwner(p, op, user) ==
    LET token == createSessionToken(user.id, nextSid + 1, now) IN
    /\ nextSid' = nextSid + 1
    /\ sessions' = sessions \cup
           {[userId |-> user.id + 1, token |-> token, expiresAt |-> now + SESSION_DAYS]}
    /\ issued' = issued \cup {token}
    /\ Finish(p, IssuedResult(op, user, token))

\* db.insert(sessions).values({ userId, token, expiresAt }) for a fresh token,
\* then the Set-Cookie header and the return value
IssueSession(p, op, user) ==
    LET token == createSessionToken(user.id, nextSid + 1, now) IN
    /\ nextSid' = nextSid + 1
    /\ sessions' = sessions \cup
           {[userId |-> user.id, token |-> token, expiresAt |-> now + SESSION_DAYS]}
    /\ issued' = issued \cup {token}
    /\ Finish(p, IssuedResult(op, user, token))

\* if (ctx.user)
AlreadyAuthenticatedNever(c) == FALSE
AlreadyAuthenticated(c) == c.user # NullUser

\* the handler receives its parsed input
Receive(p, input) ==
    loc' = [loc EXCEPT ![p] =
               [f \in DOMAIN NoLoc |->
                   IF f \in DOMAIN input THEN input[f]
                   ELSE IF f = "normalizedEmail" THEN normalizeEmail(input.email)
                   ELSE NoLoc[f]]]

Continue(p, op, label) ==
    /\ pc'  = [pc EXCEPT ![p] = label]
    /\ res' = [res EXCEPT ![p] = Pending(op)]

(* signup: input schema, ctx.user guard, duplicate check *)
SignupBegin(p, input) ==
    /\ pc[p] = "idle"
    /\ Receive(p, input)
    /\ IF ~signupInputSchema(input)
       THEN Finish(p, SchemaFailure("signup", signupInputIssues(input)))
       ELSE IF AlreadyAuthenticated(ctx[p])
       THEN Finish(p, Failure("signup", "FORBIDDEN",
                              "Cannot signup while already logged in. Please logout first."))
       ELSE IF UserByEmail(normalizeEmail(input.email)) # {}
       THEN Finish(p, Failure("signup", "CONFLICT", "User already exists"))
       ELSE Continue(p, "signup", "signup_insert")
    /\ UNCHANGED <<users, sessions, now, nextSid, issued, ctx, accounts, transactions, lloc>>

(* signup: bcrypt.hash, encryptSSN, db.insert(users) *)
SignupInsert(p) ==
    /\ pc[p] = "signup_insert"
    /\ users' = users \cup {[id |-> Cardinality(users) + 1,
                             email |-> loc[p].normalizedEmail,
                             password |-> bcryptHash(loc[p].password),
                             ssn |-> encryptSSN("123456789")]}
    /\ pc' = [pc EXCEPT ![p] = "signup_fetch"]
    /\ UNCHANGED <<sessions, now, nextSid, issued, ctx, loc, res, accounts, transactions, lloc>>

(* signup: read the created user back *)
SignupFetch(p) ==
    /\ pc[p] = "signup_fetch"
    /\ LET found == UserByEmail(loc[p].normalizedEmail) IN
       IF found = {}
       THEN /\ Finish(p, Failure("signup", "INTERNAL_SERVER_ERROR", "Failed to create user"))
            /\ UNCHANGED loc
       ELSE /\ pc' = [pc EXCEPT ![p] = "signup_session"]
            /\ loc' = [loc EXCEPT ![p].uid =
                          (CHOOSE u \in found : \A w \in found : u.id <= w.id).id]
            /\ UNCHANGED res
    /\ UNCHANGED <<users, sessions, now, nextSid, issued, ctx, accounts, transactions, lloc>>

(* signup: create the session, set the cookie, return *)
SignupSession(p) ==
    /\ pc[p] = "signup_session"
    /\ IssueSession(p, "signup", CHOOSE u \in UserById(loc[p].uid) : TRUE)
    /\ UNCHANGED <<users, now, ctx, loc, accounts, transactions, lloc>>

SignupSessionFaultPartial(p) ==
    /\ pc[p] = "signup_session"
    /\ Finish(p, IssuedResult("signup", CHOOSE u \in UserById(loc[p].uid) : TRUE, <<>>))
    /\ UNCHANGED <<users, sessions, now, nextSid, issued, ctx, loc, accounts, transactions, lloc>>

(* signup: db.insert(sessions) throws; the error reaches the caller before *)
(* the Set-Cookie header is written                                        *)
SignupSessionFault(p) ==
    /\ pc[p] = "signup_session"
    /\ Finish(p, Failure("signup", "INTERNAL_SERVER_ERROR", "Database connection failed"))
    /\ UNCHANGED <<users, sessions, now, nextSid, issued, ctx, loc, accounts, transactions, lloc>>

(* login: input schema, ctx.user guard, user lookup *)
LoginBegin(p, input) ==
    /\ pc[p] = "idle"
    /\ IF ~loginInputSchema(input)
       THEN Finish(p, SchemaFailure("login", {"email"})) /\ Receive(p, input)
       ELSE IF AlreadyAuthenticated(ctx[p])
       THEN /\ Finish(p, Failure("login", "FORBIDDEN",
                                 "Cannot login while already logged in. Please logout first."))
            /\ Receive(p, input)
       ELSE IF UserByEmail(input.email) = {}
       THEN Finish(p, Failure("login", "UNAUTHORIZED", "Invalid credentials")) /\ Receive(p, input)
       ELSE /\ Continue(p, "login", "login_compare")
            /\ loc' = [loc EXCEPT ![p] =
                          [NoLoc EXCEPT !.email = input.email, !.password = input.password,
                                        !.normalizedEmail = normalizeEmail(input.email),
                                        !.uid = (CHOOSE u \in UserByEmail(input.email) : TRUE).id]]
    /\ UNCHANGED <<users, sessions, now, nextSid, issued, ctx, accounts, transactions, lloc>>

(* login: bcrypt.compare *)
LoginCompare(p) ==
    /\ pc[p] = "login_compare"
    /\ LET user == CHOOSE u \in UserById(loc[p].uid) : TRUE IN
       IF ~bcryptCompare(loc[p].password, user.password)
       THEN Finish(p, Failure("login", "UNAUTHORIZED", "Invalid credentials"))
       ELSE pc' = [pc EXCEPT ![p] = "login_insert"] /\ UNCHANGED res
    /\ UNCHANGED <<users, sessions, now, nextSid, issued, ctx, loc, accounts, transactions, lloc>>

(* login: create the session, set the cookie, return *)
LoginInsert(p) ==
    /\ pc[p] = "login_insert"
    /\ IssueSession(p, "login", CHOOSE u \in UserById(loc[p].uid) : TRUE)
    /\ UNCHANGED <<users, now, ctx, loc, accounts, transactions, lloc>>

LogoutDeletesCookieMapOnly(c) ==
    IF c.user # NullUser /\ c.req.cookies.present /\ Truthy(c.req.cookies.session)
    THEN SessionByToken(c.req.cookies.session.v)
    ELSE {}

LogoutDeletesAllForUser(c) ==
    IF c.user # NullUser THEN {s \in sessions : s.userId = c.user.id} ELSE {}

\* the rows logout deletes: db.delete(sessions).where(eq(sessions.token, token))
LogoutDeletes(c) ==
    IF c.user # NullUser
    THEN LET token == getSessionTokenFromContext(c) IN
         IF Truthy(token) THEN SessionByToken(token.v) ELSE {}
    ELSE {}

(* logout *)
Logout(p) ==
    /\ pc[p] = "idle"
    /\ sessions' = sessions \ LogoutDeletes(ctx[p])
    /\ Finish(p, LogoutResult(IF ctx[p].user # NullUser THEN "Logged out successfully"
                                                        ELSE "No active session"))
    /\ UNCHANGED <<users, now, nextSid, issued, ctx, loc, accounts, transactions, lloc>>

\* ctx.user ? sanitizeUser(ctx.user) : null
MeResult(c) ==
    [NoResult EXCEPT !.op = "me", !.status = "ok",
                     !.user = IF c.user # NullUser THEN sanitizeUser(c.user) ELSE NullUser]

(* me *)
Me(p) ==
    /\ pc[p] = "idle"
    /\ Finish(p, MeResult(ctx[p]))
    /\ UNCHANGED <<users, sessions, now, nextSid, issued, ctx, loc, accounts, transactions, lloc>>

SignupInputs(emails) ==
    [email : emails, password : SignupPasswords, dateOfBirth : {25},
     phoneNumber : {"+14155551234"}, state : {"CA"}]
LoginInputs(emails)  == [email : emails, password : LoginPasswords]

\* requests that have passed their guards and will insert a session row
Issuing == {p \in Procs : pc[p] \in {"login_compare", "login_insert", "signup_insert",
                                     "signup_fetch", "signup_session"}}

\* tokens drawn so far plus the tokens the running calls may still draw
SessionDemand == nextSid + Cardinality(Issuing)

\* one step of request slot p, its inputs drawn from the given e-mail strings;
\* a call is accepted while the behaviour's budget of session tokens lasts
AuthStep(p, reqs, emails, budget) ==
    \/ \E req \in reqs : CreateContext(p, req)
    \/ \E input \in SignupInputs(emails) : SignupBegin(p, input) /\ SessionDemand' <= budget
    \/ SignupInsert(p)
    \/ SignupFetch(p)
    \/ SignupSession(p)
    \/ \E input \in LoginInputs(emails) : LoginBegin(p, input) /\ SessionDemand' <= budget
    \/ LoginCompare(p)
    \/ LoginInsert(p)
    \/ Logout(p)
    \/ Me(p)
    \/ Return(p)

-----------------------------------------------------------------------------
(* Spec: the auth router serving one call at a time *)

Next == AuthStep(1, Requests, EmailInputs, MaxSessions)

Spec == Init /\ [][Next]_vars

(* SpecClock: the same for one e-mail address, with the clock running *)

ClockEmails == {"a@x.com", "not-an-email"}

NextClock == Tick \/ AuthStep(1, BrowserRequests, ClockEmails, MaxClockSessions)

SpecClock == Init /\ [][NextClock]_vars

(* SpecSignupFault: the auth router with a storage whose session insert may *)
(* fail during signup                                                       *)

NextSignupFault ==
    \/ AuthStep(1, BrowserRequests, ClockEmails, MaxClockSessions)
    \/ SignupSessionFault(1)

SpecSignupFault == Init /\ [][NextSignupFault]_vars

(* SpecSignupFields: signup with inputs that vary in every validated field *)
(* modelled, login and logout in between                                   *)

\* the passwords of the signup tests: too short, one character class,
\* createTestUserData's default, and a strong one
FieldPasswords == {"Aa1!", "AAAAAAAAAAAA", "password123", "Str0ng!Passw0rd"}

SignupFieldInputs ==
    [email : ClockEmails, password : FieldPasswords, dateOfBirth : {17, 18},
     phoneNumber : {"+14155551234", "555-1234"}, state : {"CA", "XX", "California"}]

NextSignupFields ==
    \/ \E req \in BrowserRequests : CreateContext(1, req)
    \/ \E input \in SignupFieldInputs : SignupBegin(1, input) /\ SessionDemand' <= 1
    \/ SignupInsert(1)
    \/ SignupFetch(1)
    \/ SignupSession(1)
    \/ Logout(1)
    \/ Return(1)

SpecSignupFields == Init /\ [][NextSignupFields]_vars

(* SpecFixture: SpecClock plus the session rows that the expiry tests write  *)
(* directly, with an expiry of their own choosing                            *)

MaxFixtures == 1

\* jwt.sign({ userId }, secret, { expiresIn: "7d" }) and
\* db.insert(sessions).values({ userId, token, expiresAt })
InsertSessionFixture(userId, expiresAt) ==
    LET token == <<[kind |-> "jwt", userId |-> userId, sessionId |-> 0,
                    exp |-> now + JWT_DAYS, sig |-> "ok"]>> IN
    /\ UserById(userId) # {}
    /\ Cardinality({t \in issued : t[1].sessionId = 0}) < MaxFixtures
    /\ sessions' = sessions \cup {[userId |-> userId, token |-> token, expiresAt |-> expiresAt]}
    /\ issued' = issued \cup {token}
    /\ UNCHANGED <<users, now, nextSid, pc, ctx, loc, res, accounts, transactions, lloc>>

NextFixture ==
    \/ Tick
    \/ \E req \in BrowserRequests : CreateContext(1, req)
    \/ \E input \in SignupInputs(ClockEmails) : SignupBegin(1, input) /\ SessionDemand' <= 1
    \/ SignupInsert(1)
    \/ SignupFetch(1)
    \/ SignupSession(1)
    \/ Return(1)
    \/ \E u \in users : \E e \in {now - 1, now} : InsertSessionFixture(u.id, e)

SpecFixture == Init /\ [][NextFixture]_vars

(* SpecRace: two login calls that both start before either has returned,    *)
(* after one user has signed up                                              *)

RaceStep(p) ==
    \/ \E input \in LoginInputs(ClockEmails) :
          /\ \A q \in Procs : pc[q] # "done"
          /\ LoginBegin(p, input)
          /\ SessionDemand' <= MaxSessions + 1
    \/ LoginCompare(p)
    \/ LoginInsert(p)
    \/ Return(p) /\ res[p].status = "error"

NextRace ==
    \/ \E input \in SignupInputs(ClockEmails) : SignupBegin(1, input) /\ SessionDemand' <= 1
    \/ SignupInsert(1)
    \/ SignupFetch(1)
    \/ SignupSession(1)
    \/ Return(1) /\ res[1].op = "signup"
    \/ \E p \in Procs : RaceStep(p)

SpecRace == Init /\ [][NextRace]_vars

-----------------------------------------------------------------------------
(* Account router.  A dollar amount is an integer number of tenths of a     *)
(* cent, so that amounts below one cent exist; binary rounding error of the *)
(* product amount * 100 is not modelled.                                    *)

\* Math.round(amount * 100)
centsFromDollars(mills) == (mills + 5) \div 10

dollarsFromCentsRaw(cents) == cents

\* cents / 100
dollarsFromCents(cents) == cents * 10

AccountTypes == {"checking", "savings"}

\* validateCardNumber(accountNumber).isValid
ValidCardAny(number) == TRUE
ValidCard(number) == number = "4111111111111111"

FundingSources ==
    { [type |-> "card", accountNumber |-> "4111111111111111", routingNumber |-> ""],
      [type |-> "card", accountNumber |-> "1234", routingNumber |-> ""],
      [type |-> "bank", accountNumber |-> "000123", routingNumber |-> "123456789"],
      [type |-> "bank", accountNumber |-> "000123", routingNumber |-> "12"] }

fundInputSchemaAnySign(input) ==
    input.fundingSource.type = "bank" => input.fundingSource.routingNumber = "123456789"

\* fundAccount's input schema
fundInputSchema(input) ==
    /\ input.amount > 0
    /\ input.fundingSource.type = "bank" => input.fundingSource.routingNumber = "123456789"

\* the issues the schema reports for an input it rejects
fundInputIssues(input) ==
    LET routing == input.fundingSource.type = "bank"
                      /\ input.fundingSource.routingNumber # "123456789"
    IN  IF input.amount > 0 THEN "Routing number must be 9 digits"
        ELSE IF routing THEN "Number must be greater than 0; Routing number must be 9 digits"
        ELSE "Number must be greater than 0"

AccountOfAnyOwner(id, userId) == {a \in accounts : a.id = id}
AccountOf(id, userId) == {a \in accounts : a.id = id /\ a.userId = userId}
AccountByNumber(n)    == {a \in accounts : a.accountNumber = n}

UnauthorizedNever(c) == FALSE

\* protectedProcedure: if (!ctx.user) throw UNAUTHORIZED
Unauthorized(c) == c.user = NullUser

NewBalanceOverwrite(balance, amountCents) == amountCents

\* balance: account.balance + amountCents
NewBalance(balance, amountCents) == balance + amountCents

AccountOfTypeNone(userId, accountType) == {}

\* select from accounts where userId = ctx.user.id and accountType = input.accountType
AccountOfType(userId, accountType) ==
    {a \in accounts : a.userId = userId /\ a.accountType = accountType}

\* `You already have a ${input.accountType} account`
AlreadyHave(accountType) ==
    IF accountType = "checking" THEN "You already have a checking account"
                                ELSE "You already have a savings account"

(* createAccount: ctx.user guard, duplicate-type check *)
CreateAccountBegin(p, accountType) ==
    /\ pc[p] = "idle"
    /\ IF Unauthorized(ctx[p])
       THEN Finish(p, Failure("createAccount", "UNAUTHORIZED", "UNAUTHORIZED")) /\ UNCHANGED lloc
       ELSE IF AccountOfType(ctx[p].user.id, accountType) # {}
       THEN /\ Finish(p, Failure("createAccount", "CONFLICT", AlreadyHave(accountType)))
            /\ UNCHANGED lloc
       ELSE /\ Continue(p, "createAccount", "create_generate")
            /\ lloc' = [lloc EXCEPT ![p] = [NoLedgerLoc EXCEPT !.accountType = accountType]]
    /\ UNCHANGED <<users, sessions, now, nextSid, issued, ctx, loc, accounts, transactions>>

(* createAccount: one round of the loop: generateAccountNumber(), look it up *)
CreateAccountGenerate(p, accountNumber) ==
    /\ pc[p] = "create_generate"
    /\ lloc' = [lloc EXCEPT ![p].accountNumber = accountNumber]
    /\ pc' = [pc EXCEPT ![p] = IF AccountByNumber(accountNumber) = {} THEN "create_insert"
                                                                   ELSE "create_generate"]
    /\ UNCHANGED <<users, sessions, now, nextSid, issued, ctx, loc, res, accounts, transactions>>

(* createAccount: db.insert(accounts) *)
CreateAccountInsert(p) ==
    /\ pc[p] = "create_insert"
    /\ accounts' = accounts \cup {[id |-> Cardinality(accounts) + 1,
                                   userId |-> ctx[p].user.id,
                                   accountNumber |-> lloc[p].accountNumber,
                                   accountType |-> lloc[p].accountType,
                                   balance |-> 0,
                                   status |-> "active"]}
    /\ pc' = [pc EXCEPT ![p] = "create_fetch"]
    /\ UNCHANGED <<users, sessions, now, nextSid, issued, ctx, loc, res, transactions, lloc>>

(* createAccount: read the account back and return it *)
CreateAccountFetch(p) ==
    /\ pc[p] = "create_fetch"
    /\ LET found == AccountByNumber(lloc[p].accountNumber) IN
       IF found = {}
       THEN Finish(p, Failure("createAccount", "INTERNAL_SERVER_ERROR", "Failed to create account"))
       ELSE LET account == CHOOSE a \in found : \A b \in found : a.id <= b.id IN
            Finish(p, DataResult("createAccount", account.id, dollarsFromCents(account.balance)))
    /\ UNCHANGED <<users, sessions, now, nextSid, issued, ctx, loc, accounts, transactions, lloc>>

(* createAccount: db.insert(accounts) throws; the error reaches the caller *)
CreateAccountInsertFault(p) ==
    /\ pc[p] = "create_insert"
    /\ Finish(p, Failure("createAccount", "INTERNAL_SERVER_ERROR", "Database connection failed"))
    /\ UNCHANGED <<users, sessions, now, nextSid, issued, ctx, loc, accounts, transactions, lloc>>

CreateAccountFetchFaultSynthesized(p) ==
    /\ pc[p] = "create_fetch"
    /\ Finish(p, DataResult("createAccount", 0, dollarsFromCents(0)))
    /\ UNCHANGED <<users, sessions, now, nextSid, issued, ctx, loc, accounts, transactions, lloc>>

(* createAccount: the read-back select yields no row: if (!account) throw *)
CreateAccountFetchFault(p) ==
    /\ pc[p] = "create_fetch"
    /\ Finish(p, Failure("createAccount", "INTERNAL_SERVER_ERROR", "Failed to create account"))
    /\ UNCHANGED <<users, sessions, now, nextSid, issued, ctx, loc, accounts, transactions, lloc>>

(* fundAccount: input schema, ctx.user guard, card check, account lookup *)
FundBegin(p, input) ==
    /\ pc[p] = "idle"
    /\ LET amountCents == centsFromDollars(input.amount)
           account     == AccountOf(input.accountId, ctx[p].user.id)
           \* the handler has run and holds its input
           Entered     == lloc' = [lloc EXCEPT ![p] =
                                      [NoLedgerLoc EXCEPT !.accountId = input.accountId]]
       IN
       IF Unauthorized(ctx[p])
       THEN Finish(p, Failure("fundAccount", "UNAUTHORIZED", "UNAUTHORIZED")) /\ UNCHANGED lloc
       ELSE IF ~fundInputSchema(input)
       THEN Finish(p, Failure("fundAccount", "BAD_REQUEST", fundInputIssues(input))) /\ UNCHANGED lloc
       ELSE IF input.fundingSource.type = "card" /\ ~ValidCard(input.fundingSource.accountNumber)
       THEN Finish(p, Failure("fundAccount", "BAD_REQUEST", "Invalid card number")) /\ Entered
       ELSE IF account = {}
       THEN Finish(p, Failure("fundAccount", "NOT_FOUND", "Account not found")) /\ Entered
       ELSE IF (CHOOSE a \in account : TRUE).status # "active"
       THEN Finish(p, Failure("fundAccount", "BAD_REQUEST", "Account is not active")) /\ Entered
       ELSE /\ Continue(p, "fundAccount", "fund_insert")
            /\ lloc' = [lloc EXCEPT ![p] =
                           [NoLedgerLoc EXCEPT !.accountId = input.accountId,
                                               !.sourceType = input.fundingSource.type,
                                               !.amountCents = amountCents,
                                               !.balance = (CHOOSE a \in account : TRUE).balance]]
    /\ UNCHANGED <<users, sessions, now, nextSid, issued, ctx, loc, accounts, transactions>>

\* description: `Funding from ${input.fundingSource.type}`
FundingFrom(sourceType) ==
    IF sourceType = "card" THEN "Funding from card" ELSE "Funding from bank"

(* fundAccount: db.insert(transactions).returning() *)
FundInsert(p) ==
    /\ pc[p] = "fund_insert"
    /\ LET id == Cardinality(transactions) + 1 IN
       /\ transactions' = transactions \cup
              {[id |-> id, accountId |-> lloc[p].accountId, type |-> "deposit",
                amount |-> lloc[p].amountCents,
                description |-> FundingFrom(lloc[p].sourceType),
                status |-> "completed", createdAt |-> now]}
       /\ lloc' = [lloc EXCEPT ![p].txnId = id]
    /\ pc' = [pc EXCEPT ![p] = "fund_update"]
    /\ UNCHANGED <<users, sessions, now, nextSid, issued, ctx, loc, res, accounts>>

(* fundAccount: db.update(accounts).set({ balance: account.balance + amountCents }), *)
(* where account is the row read before the insert; return the updated row           *)
FundUpdate(p) ==
    /\ pc[p] = "fund_update"
    /\ LET balance == NewBalance(lloc[p].balance, lloc[p].amountCents) IN
       /\ accounts' = {IF a.id = lloc[p].accountId THEN [a EXCEPT !.balance = balance] ELSE a :
                          a \in accounts}
       /\ Finish(p, DataResult("fundAccount", lloc[p].txnId, dollarsFromCents(balance)))
    /\ UNCHANGED <<users, sessions, now, nextSid, issued, ctx, loc, transactions, lloc>>

(* fundAccount: the update yields no row or throws (a storage fault): the    *)
(* call fails with an internal error                                         *)
FundUpdateFault(p) ==
    /\ pc[p] = "fund_update"
    /\ Finish(p, Failure("fundAccount", "INTERNAL_SERVER_ERROR", "Failed to update account balance"))
    /\ UNCHANGED <<users, sessions, now, nextSid, issued, ctx, loc, accounts, transactions, lloc>>

\* { ...account, balance: dollarsFromCents(account.balance) }
serializeAccount(account) == [account EXCEPT !.balance = dollarsFromCents(account.balance)]

\* a description holding markup, as the test inserts it
XssPayload == "<img src=x onerror=\"alert('XSS')\">"

serializeTransactionEscaped(transaction) ==
    [transaction EXCEPT !.amount = dollarsFromCents(transaction.amount),
                        !.description = IF @ = XssPayload THEN "&lt;img src=x&gt;" ELSE @]

\* { ...transaction, amount: dollarsFromCents(transaction.amount) }
serializeTransaction(transaction) ==
    [transaction EXCEPT !.amount = dollarsFromCents(transaction.amount)]

\* the orders in which a select may deliver the rows of a set
RowOrders(rows) ==
    {f \in [1..Cardinality(rows) -> rows] : \A i, j \in 1..Cardinality(rows) : f[i] = f[j] => i = j}

\* .orderBy(desc(transactions.createdAt)): rows of one instant come in any order
NewestFirst(rows) ==
    {f \in RowOrders(rows) :
        \A i, j \in 1..Cardinality(rows) : i < j => f[i].createdAt >= f[j].createdAt}

\* { ...row, accountType }
WithAccountType(row, accountType) ==
    [f \in DOMAIN row \cup {"accountType"} |->
        IF f = "accountType" THEN accountType ELSE row[f]]

AccountTypeLookupsPerRow(rows) == Len(rows)

\* accountType: account.accountType is read off the record fetched for the
\* ownership check: the map over the rows issues no select
AccountTypeLookups(rows) == 0

RowsResult(op, rows) == [NoResult EXCEPT !.op = op, !.status = "ok", !.rows = rows]

(* getAccounts *)
GetAccounts(p, order) ==
    /\ pc[p] = "idle"
    /\ IF Unauthorized(ctx[p])
       THEN Finish(p, Failure("getAccounts", "UNAUTHORIZED", "UNAUTHORIZED"))
       ELSE /\ order \in RowOrders({a \in accounts : a.userId = ctx[p].user.id})
            /\ Finish(p, RowsResult("getAccounts",
                                    [i \in DOMAIN order |-> serializeAccount(order[i])]))
    /\ UNCHANGED <<users, sessions, now, nextSid, issued, ctx, loc, accounts, transactions, lloc>>

(* getTransactions: account lookup, then the account's rows newest first, *)
(* each with the account's type                                           *)
GetTransactions(p, accountId, order) ==
    /\ pc[p] = "idle"
    /\ LET account == AccountOf(accountId, ctx[p].user.id) IN
       IF Unauthorized(ctx[p])
       THEN Finish(p, Failure("getTransactions", "UNAUTHORIZED", "UNAUTHORIZED"))
       ELSE IF account = {}
       THEN Finish(p, [Failure("getTransactions", "NOT_FOUND", "Account not found")
                          EXCEPT !.queries = 1])
       ELSE /\ order \in NewestFirst({t \in transactions : t.accountId = accountId})
            /\ Finish(p, [RowsResult("getTransactions",
                             [i \in DOMAIN order |->
                                 WithAccountType(serializeTransaction(order[i]),
                                                 (CHOOSE a \in account : TRUE).accountType)])
                             EXCEPT !.queries = 2 + AccountTypeLookups(order)])
    /\ UNCHANGED <<users, sessions, now, nextSid, issued, ctx, loc, accounts, transactions, lloc>>

\* the read-only procedures of request slot p
QueryStep(p) ==
    \/ \E order \in RowOrders({a \in accounts : a.userId = ctx[p].user.id}) :
          GetAccounts(p, order)
    \/ \E accountId \in 1..2 :
          \E order \in NewestFirst({t \in transactions : t.accountId = accountId}) :
              GetTransactions(p, accountId, order)

AmountInputs == {-10, 0, 4, 10, 25}

FundInputs == [accountId : 1..2, amount : AmountInputs, fundingSource : FundingSources]

\* transaction rows written so far plus those the running calls will write
TxnDemand == Cardinality(transactions) + Cardinality({p \in Procs : pc[p] = "fund_insert"})

\* one step of request slot p in the account router
CreateAccountStep(p, types) ==
    \/ \E t \in types : CreateAccountBegin(p, t)
    \/ \E n \in 0..(MaxAcctNum - 1) : CreateAccountGenerate(p, n)
    \/ CreateAccountInsert(p)
    \/ CreateAccountFetch(p)

FundStep(p, inputs) ==
    \/ \E input \in inputs : FundBegin(p, input) /\ TxnDemand' <= MaxTxns
    \/ FundInsert(p)
    \/ FundUpdate(p)

\* the funding inputs of the single-slot specifications: accepted deposits
\* come from a card, refused ones from a card or a bank
LedgerFundInputs ==
    {input \in FundInputs :
        input.fundingSource.type = "bank" => input.fundingSource.routingNumber # "123456789"}

LedgerStep(p) ==
    \/ CreateAccountStep(p, AccountTypes)
    \/ FundStep(p, LedgerFundInputs)

\* a user signs up and the request slots are resolved with the cookie
Onboarding ==
    \/ \E input \in SignupInputs(ClockEmails) : SignupBegin(1, input) /\ SessionDemand' <= 1
    \/ SignupInsert(1)
    \/ SignupFetch(1)
    \/ SignupSession(1)

(* SpecLedger: the account router serving one call at a time *)

NextLedger ==
    \/ Onboarding
    \/ \E req \in BrowserRequests : CreateContext(1, req)
    \/ LedgerStep(1)
    \/ QueryStep(1)
    \/ Return(1)

SpecLedger == Init /\ [][NextLedger]_vars

(* SpecLedgerRace: two request slots in the account router at once *)

RaceFundInputs ==
    {input \in FundInputs : /\ input.accountId = 1
                            /\ input.amount \in {10, 25}
                            /\ input.fundingSource.type = "card"
                            /\ ValidCard(input.fundingSource.accountNumber)}

NextLedgerRace ==
    \/ Onboarding
    \/ CreateAccountStep(1, {"checking"})
    \/ \E p \in Procs :
          \/ \E req \in BrowserRequests \ {AnonymousRequest} : CreateContext(p, req)
          \/ FundStep(p, RaceFundInputs)
          \/ Return(p)

SpecLedgerRace == Init /\ [][NextLedgerRace]_vars

(* SpecLedgerOwners: two users with an account each; an account may be set  *)
(* inactive from outside the router                                         *)

\* accounts.status set to a value other than "active"
DeactivateAccount(id) ==
    /\ \E a \in accounts : a.id = id /\ a.status = "active"
    /\ accounts' = {IF a.id = id THEN [a EXCEPT !.status = "inactive"] ELSE a : a \in accounts}
    /\ UNCHANGED <<users, sessions, now, nextSid, issued, pc, ctx, loc, res, transactions, lloc>>

OwnerEmails == {"a@x.com", "b@x.com"}

OwnerFundInputs ==
    [accountId : 1..3, amount : {10},
     fundingSource : {src \in FundingSources : src.type = "card" /\ ValidCard(src.accountNumber)}]

\* a browser behind the Next.js adapter that sends the cookie it was given
CookieRequests ==
    {[cookies |-> CookiesWith(v), headers |-> DirectHeaders(Some(<<SessionPair(v)>>))] :
        v \in issued}

NextLedgerOwners ==
    \/ \E input \in {i \in SignupInputs(OwnerEmails) : i.password = "Passw0rd!"} :
          SignupBegin(1, input) /\ SessionDemand' <= 2
    \/ SignupInsert(1)
    \/ SignupFetch(1)
    \/ SignupSession(1)
    \/ \E req \in CookieRequests : CreateContext(1, req)
    \/ CreateAccountStep(1, {"checking"})
    \/ \E id \in 1..2 : DeactivateAccount(id)
    \/ FundStep(1, OwnerFundInputs)
    \/ Return(1)

SpecLedgerOwners == Init /\ [][NextLedgerOwners]_vars

(* SpecCreate: createAccount one call at a time, with a storage whose       *)
(* insert or read-back may fail                                             *)

NextCreate ==
    \/ Onboarding
    \/ \E req \in BrowserRequests : CreateContext(1, req)
    \/ CreateAccountStep(1, AccountTypes)
    \/ CreateAccountInsertFault(1)
    \/ CreateAccountFetchFault(1)
    \/ Return(1)

SpecCreate == Init /\ [][NextCreate]_vars

(* SpecCreateRace: two createAccount calls of one user in flight at once *)

NextCreateRace ==
    \/ Onboarding
    \/ Return(1) /\ res[1].op = "signup"
    \/ \E p \in Procs :
          \/ \E req \in CookieRequests : CreateContext(p, req)
          \/ CreateAccountStep(p, AccountTypes)
          \/ Return(p) /\ res[p].op = "createAccount"

SpecCreateRace == Init /\ [][NextCreateRace]_vars

(* SpecCreateLive: createAccount for two users, one call at a time.  A call *)
(* in progress keeps running, and randomInt yields every number again and  *)
(* again                                                                    *)

NextCreateLive ==
    \/ \E input \in {i \in SignupInputs(OwnerEmails) : i.password = "Passw0rd!"} :
          SignupBegin(1, input) /\ SessionDemand' <= 2
    \/ SignupInsert(1)
    \/ SignupFetch(1)
    \/ SignupSession(1)
    \/ \E req \in CookieRequests : CreateContext(1, req)
    \/ CreateAccountStep(1, AccountTypes)
    \/ Return(1)

SpecCreateLive ==
    /\ Init /\ [][NextCreateLive]_vars
    /\ WF_vars(CreateAccountInsert(1))
    /\ WF_vars(CreateAccountFetch(1))
    /\ \A n \in 0..(MaxAcctNum - 1) : SF_vars(CreateAccountGenerate(1, n))

(* SpecLedgerFault: SpecLedger with a storage that may fail the balance update *)

NextLedgerFault ==
    \/ Onboarding
    \/ \E req \in BrowserRequests : CreateContext(1, req)
    \/ LedgerStep(1)
    \/ Return(1)
    \/ FundUpdateFault(1)

SpecLedgerFault == Init /\ [][NextLedgerFault]_vars

(* SpecResolve: createContext on every request shape RequestLike admits,   *)
(* while the clock runs past the expiry of the one session issued           *)

\* the cookie maps and header objects of type RequestLike for the cookie
\* values a client may hold: cookies absent, without session, with an empty
\* or a held session; headers with or without get, each of get("cookie") and
\* cookie absent, empty, or a string with session=<value>
RequestLikes ==
    LET strings == {None, Some(<<>>)}
                     \cup {Some(<<SessionPair(v)>>) : v \in HeldValues}
                     \cup {Some(<<ThemePair, SessionPair(v)>>) : v \in HeldValues}
        maps    == {NoCookies, EmptyCookies, CookiesWith(<<>>)}
                     \cup {CookiesWith(v) : v \in HeldValues}
        headers == {DirectHeaders(h) : h \in strings}
                     \cup {[hasGet |-> TRUE, get |-> g, cookie |-> h] :
                              g \in strings, h \in strings}
    IN  [cookies : maps, headers : headers]

NextResolve ==
    \/ Tick /\ issued # {}
    \/ Onboarding
    \/ \E req \in RequestLikes : CreateContext(1, req)
    \/ Return(1)

SpecResolve == Init /\ [][NextResolve]_vars

(* SpecResolveClock: createContext taken one await at a time, the clock    *)
(* running between its reads.  The slot keeps the request, the decoded     *)
(* user id and the clock values the call has read.                         *)

\* createContext up to jwt.verify, which reads the clock for the token's exp
ResolveBegin(p, req) ==
    /\ pc[p] = "idle"
    /\ LET token   == getSessionToken(req)
           decoded == jwtVerify(token.v, now)
       IN
       IF Truthy(token) /\ decoded.ok
       THEN /\ pc' = [pc EXCEPT ![p] = "resolve_session"]
            /\ lloc' = [lloc EXCEPT ![p] = [req |-> req, token |-> token.v,
                                            userId |-> decoded.userId, reads |-> <<now>>,
                                            warned |-> FALSE]]
            /\ UNCHANGED ctx
       ELSE /\ ctx' = [ctx EXCEPT ![p] = [user |-> NullUser, req |-> req]]
            /\ lloc' = [lloc EXCEPT ![p] = [req |-> req, token |-> <<>>, userId |-> 0,
                                            reads |-> IF Truthy(token) THEN <<now>> ELSE <<>>,
                                            warned |-> FALSE]]
            /\ UNCHANGED pc
    /\ UNCHANGED <<users, sessions, now, nextSid, issued, loc, res, accounts, transactions>>

\* the session select, `new Date(session.expiresAt) > new Date()`, the user select
ResolveSession(p) ==
    /\ pc[p] = "resolve_session"
    /\ lloc' = [lloc EXCEPT ![p].reads = Append(@, now)]
    /\ IF \E s \in SessionByToken(lloc[p].token) : SessionAlive(s, now)
       THEN /\ pc' = [pc EXCEPT ![p] = "resolve_warn"]
            /\ ctx' = [ctx EXCEPT ![p] =
                          [user |-> IF UserById(lloc[p].userId) # {}
                                    THEN sanitizeUser(CHOOSE u \in UserById(lloc[p].userId) : TRUE)
                                    ELSE NullUser,
                           req |-> lloc[p].req]]
       ELSE /\ pc' = [pc EXCEPT ![p] = "idle"]
            /\ ctx' = [ctx EXCEPT ![p] = [user |-> NullUser, req |-> lloc[p].req]]
    /\ UNCHANGED <<users, sessions, now, nextSid, issued, loc, res, accounts, transactions>>

\* expiresIn = new Date(session.expiresAt).getTime() - new Date().getTime();
\* if (expiresIn < 60000) console.warn(...): under a minute is under one tick
ResolveWarn(p) ==
    /\ pc[p] = "resolve_warn"
    /\ lloc' = [lloc EXCEPT ![p].reads = Append(@, now),
                            ![p].warned = \E s \in SessionByToken(lloc[p].token) :
                                             s.expiresAt - now < 1]
    /\ pc' = [pc EXCEPT ![p] = "idle"]
    /\ UNCHANGED <<users, sessions, now, nextSid, issued, ctx, loc, res, accounts, transactions>>

NextResolveClock ==
    \/ Tick /\ issued # {}
    \/ Onboarding
    \/ Return(1) /\ res[1].op = "signup"
    \/ \E req \in BrowserRequests : ResolveBegin(1, req)
    \/ ResolveSession(1)
    \/ ResolveWarn(1)

SpecResolveClock == Init /\ [][NextResolveClock]_vars

(* SpecStatement: two users with an account each, deposits from a card or a *)
(* bank, and rows written straight into the transactions table             *)

\* db.insert(transactions).values({ accountId, type: 'deposit', amount: 10_000,
\*                                  description, status: 'completed', ... })
InsertTransactionFixture(accountId, description) ==
    /\ \E a \in accounts : a.id = accountId
    /\ transactions' = transactions \cup
           {[id |-> Cardinality(transactions) + 1, accountId |-> accountId, type |-> "deposit",
             amount |-> 10000, description |-> description,
             status |-> "completed", createdAt |-> now]}
    /\ UNCHANGED <<users, sessions, now, nextSid, issued, pc, ctx, loc, res, accounts, lloc>>
    /\ TxnDemand' <= MaxTxns

StatementFundInputs ==
    {input \in FundInputs : /\ input.amount = 10
                            /\ fundInputSchema(input)
                            /\ input.fundingSource.type = "card" =>
                                   ValidCard(input.fundingSource.accountNumber)}

NextStatement ==
    \/ \E input \in {i \in SignupInputs(OwnerEmails) : i.password = "Passw0rd!"} :
          SignupBegin(1, input) /\ SessionDemand' <= 2
    \/ SignupInsert(1)
    \/ SignupFetch(1)
    \/ SignupSession(1)
    \/ \E req \in CookieRequests : CreateContext(1, req)
    \/ CreateAccountStep(1, {"checking"})
    \/ FundStep(1, StatementFundInputs)
    \/ \E accountId \in 1..2 : InsertTransactionFixture(accountId, XssPayload)
    \/ \E accountId \in 1..3 :
          \E order \in NewestFirst({t \in transactions : t.accountId = accountId}) :
              GetTransactions(1, accountId, order)
    \/ Return(1)

SpecStatement == Init /\ [][NextStatement]_vars

(* SpecHistory: one account funded up to MaxHistory times while the clock   *)
(* runs, and its transaction list read on both request slots                *)

MaxHistory == 3
MaxHistoryNow == 1

HistoryFundInputs ==
    {input \in FundInputs : /\ input.accountId = 1
                            /\ input.amount = 10
                            /\ input.fundingSource.type = "card"
                            /\ ValidCard(input.fundingSource.accountNumber)}

NextHistory ==
    \/ Onboarding
    \/ Tick /\ now < MaxHistoryNow
    \/ CreateAccountStep(1, {"checking"})
    \/ \E input \in HistoryFundInputs : FundBegin(1, input) /\ TxnDemand' <= MaxHistory
    \/ FundInsert(1)
    \/ FundUpdate(1)
    \/ \E p \in Procs :
          \/ \E req \in CookieRequests : CreateContext(p, req)
          \/ \E order \in NewestFirst({t \in transactions : t.accountId = 1}) :
                GetTransactions(p, 1, order)
          \/ Return(p)

SpecHistory == Init /\ [][NextHistory]_vars

-----------------------------------------------------------------------------
(* What a request carries, read off the transport and not off the extraction code *)

HeaderStringsOf(req) ==
    {h \in {req.headers.get, req.headers.cookie} : h.some}

InCookieMap(req, t) ==
    req.cookies.present /\ req.cookies.session = Some(t) /\ t # <<>>

OnlyInHeader(req, t) ==
    /\ ~(req.cookies.present /\ req.cookies.session.some /\ req.cookies.session.v # <<>>)
    /\ \E h \in HeaderStringsOf(req) : \E i \in 1..Len(h.v) : h.v[i] = SessionPair(t)

RequestCarries(req, t) == InCookieMap(req, t) \/ OnlyInHeader(req, t)

LiveSessionsOf(userId) == {s \in sessions : s.userId = userId /\ s.expiresAt > now}

\* request p starts a call of one of the given procedures in this step
Calls(p, ops) == pc[p] = "idle" /\ pc'[p] # "idle" /\ res'[p].op \in ops

-----------------------------------------------------------------------------
(* Claims *)

\* C1: in every state reached by signup, login and logout calls made with any
\* request context, every user has at most one live session row.
C1_AtMostOneLiveSession ==
    \A u \in users : Cardinality(LiveSessionsOf(u.id)) <= 1

RECURSIVE SumAmounts(_)
SumAmounts(rows) ==
    IF rows = {} THEN 0
    ELSE LET t == CHOOSE t \in rows : TRUE IN t.amount + SumAmounts(rows \ {t})

TransactionsOf(accountId) == {t \in transactions : t.accountId = accountId}

Funded(p) == pc[p] = "done" /\ res[p].op = "fundAccount" /\ res[p].status = "ok"

\* C2: when createAccount and fundAccount calls run one at a time and no
\* funding call is between its insert and its update, every account's stored
\* balance is the sum of the amounts of its transaction rows; in particular K
\* deposits of the same number of cents leave K rows and a balance of K times
\* that number.
C2_BalanceIsSumOfDeposits ==
    (\A p \in Procs : pc[p] # "fund_update") =>
        \A a \in accounts :
            /\ a.balance = SumAmounts(TransactionsOf(a.id))
            /\ \A t \in TransactionsOf(a.id) :
                  (\A r \in TransactionsOf(a.id) : r.amount = t.amount) =>
                      a.balance = Cardinality(TransactionsOf(a.id)) * t.amount

\* C2 witness: a funding call has just returned on an account that now has two
\* deposits and a positive balance.
C2_Witness ==
    /\ Funded(1)
    /\ \E a \in accounts :
          /\ a.id = lloc[1].accountId
          /\ Cardinality(TransactionsOf(a.id)) >= 2
          /\ a.balance > lloc[1].amountCents
          /\ lloc[1].amountCents > 0

\* C3: when two fundAccount calls on the same account have both completed
\* successfully, the stored balance is the balance before both calls plus the
\* two amounts in cents.
C3_NoLostDeposit ==
    ((\A p \in Procs : Funded(p)) /\ lloc[1].accountId = lloc[2].accountId) =>
        \A a \in accounts :
            a.id = lloc[1].accountId =>
                a.balance = (IF lloc[1].balance <= lloc[2].balance THEN lloc[1].balance
                                                                   ELSE lloc[2].balance)
                            + lloc[1].amountCents + lloc[2].amountCents

\* C4: a fundAccount call that has failed after inserting its transaction row
\* leaves no transaction row of that call behind.
C4_FailedFundLeavesNoRow ==
    \A p \in Procs :
        (pc[p] = "done" /\ res[p].op = "fundAccount" /\ res[p].status = "error"
                        /\ lloc[p].txnId # 0) =>
            ~ \E t \in transactions : t.id = lloc[p].txnId

\* C5: two login calls for the same user that both start from a context with
\* no identity, before either has returned, do not both succeed and leave two
\* live session rows for that user.
C5_NoTwoLiveFromRace ==
    ~ /\ \A p \in Procs : pc[p] = "done" /\ res[p].op = "login" /\ res[p].status = "ok"
      /\ res[1].user.id = res[2].user.id
      /\ res[1].token # res[2].token
      /\ \A p \in Procs : \E s \in LiveSessionsOf(res[p].user.id) : s.token = res[p].token

\* C6 as stated: a signup or login call made with a non-null identity fails
\* with FORBIDDEN whatever input it carries, and changes neither table.
C6_ForbiddenWhateverInput ==
    [][\A p \in Procs :
          (Calls(p, {"signup", "login"}) /\ ctx[p].user # NullUser)
              => /\ pc'[p] = "done"
                 /\ res'[p].status = "error" /\ res'[p].code = "FORBIDDEN"
                 /\ users' = users /\ sessions' = sessions]_vars

InputPassesSchema(op, input) ==
    IF op = "signup" THEN signupInputSchema(input) ELSE loginInputSchema(input)

\* C6 amended: a signup or login call made with a non-null identity fails and
\* changes neither table; the failure is FORBIDDEN when the input passes the
\* procedure's input schema and BAD_REQUEST when it does not.
C6_GuardRejects ==
    [][\A p \in Procs :
          (Calls(p, {"signup", "login"}) /\ ctx[p].user # NullUser)
              => /\ pc'[p] = "done"
                 /\ res'[p].status = "error"
                 /\ res'[p].code = (IF InputPassesSchema(res'[p].op, loc'[p])
                                    THEN "FORBIDDEN" ELSE "BAD_REQUEST")
                 /\ res'[p].setCookie = "none"
                 /\ users' = users /\ sessions' = sessions]_vars

C6_Witness ==
    \E p \in Procs :
        /\ pc[p] = "done" /\ res[p].op = "signup" /\ res[p].code = "FORBIDDEN"
        /\ ctx[p].user # NullUser
        /\ loc[p].email = "b@x.com" /\ UserByEmail("b@x.com") = {}
        /\ \E s \in sessions : RequestCarries(ctx[p].req, s.token)

\* request p is resolved anew in this step
Resolved(p) == ctx'[p] # ctx[p]

LogsOut(p) == Calls(p, {"logout"}) /\ pc'[p] = "done"

\* C8: logout with a non-null identity deletes the session row of the
\* request's token, whether the token is in the cookie map's session field or
\* only in the Cookie header: no row with that token is left.
C8_LogoutDeletesCarriedToken ==
    [][\A p \in Procs : (LogsOut(p) /\ ctx[p].user # NullUser) =>
          \A s \in sessions : RequestCarries(ctx[p].req, s.token) => s \notin sessions']_vars

C8_Witness ==
    \E p \in Procs : \E t \in issued :
        /\ pc[p] = "done" /\ res[p].op = "logout" /\ res[p].message = "Logged out successfully"
        /\ ctx[p].req.cookies = EmptyCookies
        /\ OnlyInHeader(ctx[p].req, t)
        /\ SessionByToken(t) = {}

\* C9: once the session row of an issued token is gone, it never comes back,
\* and every later resolution of a request that carries the token yields the
\* null user, also while the token's signature and expiry still verify.
C9_RevokedTokenStaysDead ==
    [][\A t \in issued : SessionByToken(t) = {} =>
          /\ \A s \in sessions' : s.token # t
          /\ \A p \in Procs : (Resolved(p) /\ RequestCarries(ctx'[p].req, t))
                => ctx'[p].user = NullUser]_vars

C9_Witness ==
    \E p \in Procs : \E t \in issued :
        /\ SessionByToken(t) = {}
        /\ jwtVerify(t, now).ok
        /\ RequestCarries(ctx[p].req, t)
        /\ ctx[p].user = NullUser
        /\ res[p].op # "logout"

-----------------------------------------------------------------------------
(* Session issuance, credentials, secrets, duplicate accounts *)

ReturnsIssued(p) ==
    pc[p] # "done" /\ pc'[p] = "done" /\ res'[p].op \in {"signup", "login"} /\ res'[p].status = "ok"

\* C11: every signup or login call that returns successfully has, in the step
\* that returns, inserted exactly one new session row; that row carries the
\* returned token and the id of the returned user, and the cookie is set.
C11_SuccessInsertsOneSession ==
    [][\A p \in Procs :
          ReturnsIssued(p) =>
              /\ sessions \subseteq sessions'
              /\ \E s \in sessions' \ sessions :
                    /\ sessions' \ sessions = {s}
                    /\ s.token = res'[p].token
                    /\ s.userId = res'[p].user.id
              /\ res'[p].setCookie = "session"]_vars

\* C11 witness: a login has returned a token and the row of that token is
\* in the table next to the row of the signup.
C11_Witness ==
    \E p \in Procs :
        /\ pc[p] = "done" /\ res[p].op = "login" /\ res[p].status = "ok"
        /\ \E s \in sessions : s.token = res[p].token /\ s.userId = res[p].user.id
        /\ Cardinality(sessions) >= 2

InvalidCredentials == Failure("login", "UNAUTHORIZED", "Invalid credentials")

\* a login call with a well-formed input and no identity, for an e-mail no user row has
UnknownEmailLogin(p) ==
    /\ pc[p] = "idle" /\ pc'[p] # "idle" /\ res'[p].op = "login"
    /\ ctx[p].user = NullUser
    /\ IsEmail(loc'[p].email)
    /\ ~ \E u \in users : u.email = loc'[p].email

\* a login call that has found the user and presents another password than the stored one
WrongPasswordLogin(p) ==
    /\ pc[p] = "login_compare"
    /\ pc'[p] # "login_compare"
    /\ \E u \in users : u.id = loc[p].uid /\ u.password # [digest |-> loc[p].password]

\* C12: a login that fails on an unknown e-mail and a login that fails on a
\* wrong password end with the same result (UNAUTHORIZED, "Invalid
\* credentials", no cookie), and neither creates a session row.
C12_SameFailureForEmailAndPassword ==
    [][\A p \in Procs :
          (UnknownEmailLogin(p) \/ WrongPasswordLogin(p)) =>
              /\ pc'[p] = "done"
              /\ res'[p] = InvalidCredentials
              /\ sessions' = sessions
              /\ issued' = issued]_vars

\* C12 witness: a login for an existing user with a wrong password has failed.
C12_Witness ==
    \E p \in Procs :
        /\ pc[p] = "done" /\ res[p] = InvalidCredentials
        /\ \E u \in users : u.id = loc[p].uid /\ u.password # [digest |-> loc[p].password]

Secrets == {"password", "ssn"}

\* C13: the user of every result (signup, login, me) and of every resolved
\* context has neither a password field nor an ssn field.
C13_NoSecretsLeave ==
    \A p \in Procs :
        /\ DOMAIN res[p].user \cap Secrets = {}
        /\ DOMAIN ctx[p].user \cap Secrets = {}

\* C13 witness: me has returned the user of a resolved context whose row
\* holds a password digest and an encrypted SSN.
C13_Witness ==
    \E p \in Procs :
        /\ pc[p] = "done" /\ res[p].op = "me" /\ res[p].user # NullUser
        /\ ctx[p].user.id = res[p].user.id
        /\ \E u \in users : u.id = res[p].user.id /\ Secrets \subseteq DOMAIN u

\* the lower-cased form of an e-mail string
CaseFolded(e) == IF e = "A@x.com" THEN "a@x.com" ELSE e

\* a signup call for an e-mail whose lower-cased form some user row already has
DuplicateSignup(p) ==
    /\ pc[p] = "idle" /\ pc'[p] # "idle" /\ res'[p].op = "signup"
    /\ \E u \in users : CaseFolded(u.email) = CaseFolded(loc'[p].email)

\* C14: a signup for the lower-cased e-mail of an existing user fails (with
\* CONFLICT when the input is well-formed and the request has no identity)
\* and creates neither a user row nor a session row; no two user rows ever
\* share a lower-cased e-mail.
C14_DuplicateSignupConflicts ==
    [][/\ \A p \in Procs :
             DuplicateSignup(p) =>
                 /\ pc'[p] = "done" /\ res'[p].status = "error"
                 /\ (StrLen(loc'[p].password) >= MIN_PASSWORD /\ ctx[p].user = NullUser)
                        => res'[p].code = "CONFLICT"
                 /\ users' = users /\ sessions' = sessions
       /\ \A u, w \in users' : CaseFolded(u.email) = CaseFolded(w.email) => u = w]_vars

\* C14 witness: a signup under the upper-case spelling of a registered e-mail
\* has been refused with CONFLICT.
C14_Witness ==
    \E p \in Procs :
        /\ pc[p] = "done" /\ res[p].op = "signup" /\ res[p].code = "CONFLICT"
        /\ loc[p].email = "A@x.com"
        /\ \E u \in users : u.email = "a@x.com"

-----------------------------------------------------------------------------
(* Account router: authorization and input checks *)

LedgerOps == {"createAccount", "getAccounts", "fundAccount", "getTransactions"}

\* request slot p takes up a fundAccount call
StartsFunding(p) == pc[p] = "idle" /\ pc'[p] # "idle" /\ res'[p].op = "fundAccount"

\* C15: a createAccount, getAccounts, fundAccount or getTransactions call made
\* with a null identity ends at once with UNAUTHORIZED and leaves the
\* accounts and transactions tables as they were.
C15_AccountOpsNeedIdentity ==
    [][\A p \in Procs :
          (pc[p] = "idle" /\ pc'[p] # "idle" /\ res'[p].op \in LedgerOps
                          /\ ctx[p].user = NullUser) =>
              /\ pc'[p] = "done"
              /\ res'[p] = Failure(res'[p].op, "UNAUTHORIZED", "UNAUTHORIZED")
              /\ accounts' = accounts
              /\ transactions' = transactions]_vars

\* C15 witness: with an account in the table, a funding call from a request
\* without identity has been refused.
C15_Witness ==
    \E p \in Procs :
        /\ pc[p] = "done" /\ res[p].op = "fundAccount" /\ res[p].code = "UNAUTHORIZED"
        /\ ctx[p].user = NullUser
        /\ accounts # {}

\* C16: every transaction row has an amount of more than 0 cents.
C16_EveryDepositPositive ==
    \A t \in transactions : t.amount > 0

\* C17: a fundAccount call with amount 0 or a negative amount ends at once
\* with an error (BAD_REQUEST when the request has an identity) and leaves
\* the transaction rows and the account balances as they were.
C17_NonPositiveAmountRejected ==
    [][\A p \in Procs : StartsFunding(p) => \A input \in FundInputs :
          (input.amount <= 0 /\ FundBegin(p, input)) =>
              /\ pc'[p] = "done" /\ res'[p].status = "error"
              /\ ctx[p].user # NullUser => res'[p].code = "BAD_REQUEST"
              /\ transactions' = transactions
              /\ accounts' = accounts]_vars

\* C17 witness: the owner of an account has had a funding call refused for
\* its amount.
C17_Witness ==
    \E p \in Procs :
        /\ pc[p] = "done" /\ res[p].op = "fundAccount" /\ res[p].code = "BAD_REQUEST"
        /\ res[p].message = "Number must be greater than 0"
        /\ \E a \in accounts : a.userId = ctx[p].user.id

\* a card number that fails the brand/Luhn check, or a bank source whose
\* routing number is not nine digits
BadSource(source) ==
    \/ source.type = "card" /\ source.accountNumber # "4111111111111111"
    \/ source.type = "bank" /\ source.routingNumber # "123456789"

\* C19: a fundAccount call whose card number fails the brand/Luhn check, or
\* whose bank source has no 9-digit routing number, ends at once with an
\* error (BAD_REQUEST when the request has an identity) and leaves the
\* transaction rows and the account balances as they were.
C19_BadSourceRejected ==
    [][\A p \in Procs : StartsFunding(p) => \A input \in FundInputs :
          (BadSource(input.fundingSource) /\ FundBegin(p, input)) =>
              /\ pc'[p] = "done" /\ res'[p].status = "error"
              /\ ctx[p].user # NullUser => res'[p].code = "BAD_REQUEST"
              /\ transactions' = transactions
              /\ accounts' = accounts]_vars

\* C19 witness: the owner of an account has had a funding call refused for
\* its card number.
C19_Witness ==
    \E p \in Procs :
        /\ pc[p] = "done" /\ res[p].op = "fundAccount" /\ res[p].code = "BAD_REQUEST"
        /\ res[p].message = "Invalid card number"
        /\ \E a \in accounts : a.userId = ctx[p].user.id

\* C18: a fundAccount call by an identified caller with a valid amount and
\* source ends at once with NOT_FOUND when no account row has the given id
\* and the caller as owner, and with BAD_REQUEST ("Account is not active")
\* when that row's status is not active; in both cases the transaction rows
\* and the account balances stay as they were.
C18_OwnershipAndStatusChecked ==
    [][\A p \in Procs : StartsFunding(p) => \A input \in OwnerFundInputs \cup FundInputs :
          (ctx[p].user # NullUser /\ input.amount > 0
                                  /\ ~BadSource(input.fundingSource) /\ FundBegin(p, input)) =>
              LET mine == {a \in accounts : a.id = input.accountId /\ a.userId = ctx[p].user.id}
              IN  /\ mine = {} =>
                        /\ pc'[p] = "done" /\ res'[p].code = "NOT_FOUND"
                        /\ transactions' = transactions /\ accounts' = accounts
                  /\ (\E a \in mine : a.status # "active") =>
                        /\ pc'[p] = "done" /\ res'[p].code = "BAD_REQUEST"
                        /\ res'[p].message = "Account is not active"
                        /\ transactions' = transactions /\ accounts' = accounts]_vars

\* C18 witness: with two users' accounts in the table, a funding call on the
\* caller's own inactive account has been refused.
C18_Witness ==
    \E p \in Procs :
        /\ pc[p] = "done" /\ res[p].op = "fundAccount" /\ res[p].message = "Account is not active"
        /\ \E a \in accounts :
              a.id = lloc[p].accountId /\ a.userId = ctx[p].user.id /\ a.status = "inactive"
        /\ \E b \in accounts : b.userId # ctx[p].user.id

\* C20: when a fundAccount call returns successfully, its newBalance is the
\* balance stored for the account at that moment (cents divided by 100), and
\* the transaction it returns is the row the call inserted.
C20_ReturnsStoredBalance ==
    [][\A p \in Procs :
          (pc[p] = "fund_update" /\ pc'[p] = "done" /\ res'[p].status = "ok") =>
              /\ \E a \in accounts' :
                    a.id = lloc[p].accountId /\ res'[p].data.balance = a.balance * 10
              /\ res'[p].data.id = lloc[p].txnId
              /\ \E t \in transactions' :
                    /\ t.id = res'[p].data.id
                    /\ t.accountId = lloc[p].accountId
                    /\ t.amount = lloc[p].amountCents]_vars

\* C20 witness: a funding call has returned a positive balance for an
\* account that has two transaction rows, and it is the stored balance.
C20_Witness ==
    \E p \in Procs :
        /\ Funded(p) /\ res[p].data.balance > 0
        /\ Cardinality(TransactionsOf(lloc[p].accountId)) >= 2
        /\ \E a \in accounts : a.id = lloc[p].accountId /\ res[p].data.balance = a.balance * 10

-----------------------------------------------------------------------------
(* Account creation *)

\* C21: a createAccount call for a type the caller already has an account of
\* ends at once with CONFLICT and inserts nothing; the insert of a call adds
\* exactly one row, with balance 0 and status active, for the caller and the
\* requested type; a user never has two accounts of one type when the calls
\* run one at a time.
C21_OneAccountPerType ==
    [][/\ \A p \in Procs : \A t \in AccountTypes :
             (ctx[p].user # NullUser /\ CreateAccountBegin(p, t)
                  /\ \E a \in accounts : a.userId = ctx[p].user.id /\ a.accountType = t) =>
                 /\ pc'[p] = "done" /\ res'[p].code = "CONFLICT"
                 /\ accounts' = accounts
       /\ \A p \in Procs :
             (pc[p] = "create_insert" /\ pc'[p] = "create_fetch") =>
                 /\ accounts \subseteq accounts'
                 /\ \E a \in accounts' \ accounts :
                       /\ accounts' \ accounts = {a}
                       /\ a.balance = 0 /\ a.status = "active"
                       /\ a.userId = ctx[p].user.id /\ a.accountType = lloc[p].accountType
       /\ \A a, b \in accounts' :
             (a.userId = b.userId /\ a.accountType = b.accountType) => a = b]_vars

\* C21 witness: a second createAccount for a checking account has been
\* refused and the user has exactly one checking account.
C21_Witness ==
    \E p \in Procs :
        /\ pc[p] = "done" /\ res[p].op = "createAccount" /\ res[p].code = "CONFLICT"
        /\ res[p].message = "You already have a checking account"
        /\ Cardinality({a \in accounts : a.userId = ctx[p].user.id
                                         /\ a.accountType = "checking"}) = 1

\* C22: there is at most one account row per (userId, accountType) pair.
C22_OnePerTypeUnderRace ==
    \A a, b \in accounts :
        (a.userId = b.userId /\ a.accountType = b.accountType) => a = b

\* C23: no two account rows share an accountNumber.
C23_AccountNumbersDistinct ==
    \A a, b \in accounts : a.accountNumber = b.accountNumber => a = b

\* C24: a createAccount call returns a value only when it is the row stored
\* under the number the call inserted; a call whose read-back finds nothing
\* or whose insert fails ends with an error, and after a failed insert the
\* user has no account of the requested type.
C24_NeverSynthesized ==
    [][\A p \in Procs :
          /\ (pc[p] # "done" /\ pc'[p] = "done" /\ res'[p].op = "createAccount"
                  /\ res'[p].status = "ok") =>
                 \E a \in accounts' :
                    /\ a.id = res'[p].data.id
                    /\ a.accountNumber = lloc[p].accountNumber
                    /\ a.userId = ctx[p].user.id
                    /\ res'[p].data.balance = a.balance * 10
          /\ (pc[p] = "create_fetch" /\ pc'[p] = "done"
                  /\ ~ \E a \in accounts : a.accountNumber = lloc[p].accountNumber) =>
                 res'[p].status = "error"
          /\ (pc[p] = "create_insert" /\ pc'[p] = "done") =>
                 /\ res'[p].status = "error"
                 /\ ~ \E a \in accounts' : /\ a.userId = ctx[p].user.id
                                           /\ a.accountType = lloc[p].accountType]_vars

\* C24 witness: the read-back of a createAccount call failed after its
\* insert, and the call ended with an internal error.
C24_Witness ==
    \E p \in Procs :
        /\ pc[p] = "done" /\ res[p].op = "createAccount"
        /\ res[p].message = "Failed to create account"
        /\ \E a \in accounts : a.accountNumber = lloc[p].accountNumber

\* a getTransactions call on slot p has returned a list
Listed(p) == pc[p] = "done" /\ res[p].op = "getTransactions" /\ res[p].status = "ok"

\* C25: a list returned by getTransactions is in reverse insertion order
\* (T1, T2, T3 inserted in that order come back as [T3, T2, T1]), and of two
\* returned entries the one earlier in the list was not created before the
\* later one.
C25_NewestFirst ==
    \A p \in Procs :
        Listed(p) =>
            \A i, j \in DOMAIN res[p].rows :
                i < j => /\ res[p].rows[i].id > res[p].rows[j].id
                         /\ res[p].rows[i].createdAt >= res[p].rows[j].createdAt

\* C26: two getTransactions calls that read the same stored rows of the
\* account return the same sequence.
C26_SameStateSameOrder ==
    (/\ Listed(1) /\ Listed(2)
     /\ Len(res[1].rows) = Cardinality(TransactionsOf(1))
     /\ Len(res[2].rows) = Cardinality(TransactionsOf(1)))
        => res[1].rows = res[2].rows

\* C27: a getTransactions call by a signed-in caller fails with NOT_FOUND
\* when the account is not the caller's; otherwise it returns one entry for
\* each stored row of that account and no other entry, each with the stored
\* description.
C27_ExactlyTheAccountsRows ==
    [][\A p \in Procs :
          (pc[p] = "idle" /\ pc'[p] = "done" /\ res'[p].op = "getTransactions"
              /\ ctx[p].user # NullUser) =>
             \A accountId \in 1..3 :
                \A order \in NewestFirst(TransactionsOf(accountId)) :
                   GetTransactions(p, accountId, order) =>
                      IF ~ \E a \in accounts : a.id = accountId /\ a.userId = ctx[p].user.id
                      THEN res'[p].status = "error" /\ res'[p].code = "NOT_FOUND"
                      ELSE /\ res'[p].status = "ok"
                           /\ Len(res'[p].rows) = Cardinality(TransactionsOf(accountId))
                           /\ {res'[p].rows[i].id : i \in DOMAIN res'[p].rows}
                                  = {t.id : t \in TransactionsOf(accountId)}
                           /\ \A i \in DOMAIN res'[p].rows :
                                 \E t \in TransactionsOf(accountId) :
                                    /\ t.id = res'[p].rows[i].id
                                    /\ t.description = res'[p].rows[i].description]_vars

\* C27 witness: a returned list holds a row with a markup description as
\* stored, while another account holds a row that is not in the list.
C27_Witness ==
    \E p \in Procs :
        /\ Listed(p)
        /\ \E i \in DOMAIN res[p].rows : res[p].rows[i].description = XssPayload
        /\ \E t \in transactions :
              \A i \in DOMAIN res[p].rows : t.accountId # res[p].rows[i].accountId

\* the cookie map of the request has no non-empty session field
NoMapSession(req) ==
    ~(req.cookies.present /\ req.cookies.session.some /\ req.cookies.session.v # <<>>)

\* the header strings the request yields, by field and by accessor
ReachableHeaders(req) ==
    {req.headers.cookie} \cup (IF req.headers.hasGet THEN {req.headers.get} ELSE {})

\* the header string h holds session=t
HoldsSession(h, t) == h.some /\ \E i \in 1..Len(h.v) : h.v[i] = SessionPair(t)

C29_MapBeforeHeader ==
    \A p \in Procs :
        LET req == ctx[p].req IN
        IF NoMapSession(req)
        THEN /\ getSessionToken(req) = getSessionToken([req EXCEPT !.cookies = NoCookies])
             /\ (\A h \in ReachableHeaders(req) : \A t \in HeldValues : ~HoldsSession(h, t))
                    => getSessionToken(req) = None
        ELSE getSessionToken(req) = req.cookies.session

\* C29 witness: a request whose cookie map holds a live token and whose
\* Cookie header holds another one was resolved to the user of the first.
C29_Witness ==
    /\ \E t \in HeldValues :
          /\ ctx[1].req.cookies = CookiesWith(t)
          /\ ctx[1].req.headers = DirectHeaders(Some(<<SessionPair(JunkValue)>>))
          /\ ctx[1].user # NullUser
    /\ pc[1] = "idle"

\* the token passes jwt.verify at time t
Verifies(token, t) ==
    Len(token) = 1 /\ token[1].kind = "jwt" /\ token[1].sig = "ok" /\ t < token[1].exp

\* C30: a createContext call on a request without token, or with a token
\* that fails verification or whose embedded expiry has passed, completes
\* with a null user; no createContext call changes a stored row or ends in
\* an error.
C30_ResolutionNeverFails ==
    [][\A p \in Procs :
          Resolved(p) =>
             LET token == getSessionToken(ctx'[p].req) IN
             /\ (\/ ~token.some \/ token.v = <<>>
                 \/ ~Verifies(token.v, now)) => ctx'[p].user = NullUser
             /\ UNCHANGED <<users, sessions, accounts, transactions, pc, res>>]_vars

\* C30 witness: the resolved request carries the issued token after its
\* embedded expiry, and the user is null.
C30_Witness ==
    \E t \in issued :
        /\ now >= t[1].exp
        /\ ctx[1].req.cookies = CookiesWith(t)
        /\ ctx[1].user = NullUser

\* C31: a completed resolution call has read the clock at most once, and
\* its user is the one a resolution at that single timestamp yields.
C31_SingleTimestamp ==
    \A p \in Procs :
        (pc[p] = "idle" /\ "reads" \in DOMAIN lloc[p] /\ lloc[p].reads # <<>>) =>
            /\ \A i \in DOMAIN lloc[p].reads : lloc[p].reads[i] = lloc[p].reads[1]
            /\ ctx[p].user = ResolveUser(lloc[p].req, lloc[p].reads[1])

\* C32: a signup call that ends after its user row was inserted and without
\* a session row being written ends in an error: it returns no user and no
\* token and sets no cookie.
C32_PartialSignupIsFatal ==
    [][\A p \in Procs :
          (pc[p] = "signup_session" /\ pc'[p] = "done" /\ sessions' = sessions) =>
             /\ \E u \in users' : u.email = loc[p].normalizedEmail
             /\ res'[p].status = "error"
             /\ res'[p].code = "INTERNAL_SERVER_ERROR"
             /\ res'[p].user = NullUser
             /\ res'[p].token = <<>>
             /\ res'[p].setCookie = "none"]_vars

\* C32 witness: a signup call has failed with an internal error while its
\* user row is stored and the user has no session row.
C32_Witness ==
    \E p \in Procs :
        /\ pc[p] = "done" /\ res[p].op = "signup"
        /\ res[p].code = "INTERNAL_SERVER_ERROR"
        /\ \E u \in users : /\ u.email = loc[p].normalizedEmail
                             /\ ~ \E x \in sessions : x.userId = u.id

\* request slot p takes up a signup call with the given input
SignsUp(p, input) ==
    /\ pc[p] = "idle" /\ pc'[p] # "idle" /\ res'[p].op = "signup"
    /\ \A f \in DOMAIN input : loc'[p][f] = input[f]

C34_CreateAccountCompletes ==
    \A p \in Procs : (pc[p] = "create_generate") ~> (pc[p] = "done")

C36_RowOwnerIsTokenUser ==
    [][/\ \A x \in sessions' : x.userId = x.token[1].userId
       /\ \A p \in Procs :
             (Resolved(p) /\ ctx'[p].user # NullUser) =>
                \E x \in sessions : /\ RequestCarries(ctx'[p].req, x.token)
                                     /\ x.userId = ctx'[p].user.id
                                     /\ x.token[1].userId = ctx'[p].user.id]_vars

\* C36 witness: two users hold a session each, and a request with the second
\* user's token is resolved to the second user.
C36_Witness ==
    /\ \E x, y \in sessions : x.userId = 1 /\ y.userId = 2
    /\ ctx[1].user.id = 2
    /\ \E y \in sessions : y.userId = 2 /\ RequestCarries(ctx[1].req, y.token)

\* C37: a login call from a request without identity, with the password of
\* a stored user and an e-mail string whose lower-cased form is that user's
\* stored e-mail, is not refused.
C37_LoginFoldsCase ==
    [][\A p \in Procs :
          (/\ Calls(p, {"login"}) /\ ctx[p].user = NullUser
           /\ \E u \in users : /\ u.email = CaseFolded(loc'[p].email)
                                /\ u.password = bcryptHash(loc'[p].password)) =>
             res'[p].status # "error"]_vars

\* the passwords that are under 8 characters or lack a lowercase letter, an
\* uppercase letter, a digit or a symbol
WeakPasswords == {"short", "Aa1!", "AAAAAAAAAAAA", "password123"}

\* C38: a signup call with a password under 8 characters or without one of
\* the four character classes ends at once with the failure reported on the
\* password field and no user created; with a password of all four classes
\* and 8 characters or more no failure is reported on the password field.
C38_WeakPasswordRejected ==
    [][\A p \in Procs :
          (pc[p] = "idle" /\ pc'[p] # "idle" /\ res'[p].op = "signup") =>
             IF loc'[p].password \in WeakPasswords
             THEN /\ pc'[p] = "done" /\ res'[p].code = "BAD_REQUEST"
                  /\ "password" \in res'[p].fields
                  /\ users' = users
             ELSE "password" \notin res'[p].fields]_vars

\* C39: a getTransactions call that returns a list has issued two selects,
\* one for the account and one for its transactions, however many rows the
\* list has, and every entry carries the accountType of the stored account
\* its accountId names.
C39_TwoLookupsPerCall ==
    \A p \in Procs :
        Listed(p) =>
            /\ res[p].queries = 2
            /\ \A i \in DOMAIN res[p].rows :
                  \E a \in accounts : /\ a.id = res[p].rows[i].accountId
                                       /\ a.accountType = res[p].rows[i].accountType

\* C39 witness: a list of three rows has been returned with two selects.
C39_Witness ==
    \E p \in Procs : Listed(p) /\ Len(res[p].rows) = 3 /\ res[p].queries = 2

====
